---- MODULE Spec2Model ----
(***************************************************************************)
(* Model of agent.h of the 2584 framework: the configuration store of      *)
(* agent, the tile generator rndenv and the move selectors of player       *)
(* (random, greedy, heuristic with tree_search and evaluate_board).        *)
(*                                                                         *)
(* A board is a tuple of 16 cells; cell position p of the code is index    *)
(* p + 1 of the tuple.  board.h and action.h are not part of the sources   *)
(* at hand: slide, rotate_left and map_to_fibonacci are modelled from the  *)
(* description of the board interface.                                     *)
(***************************************************************************)
EXTENDS Integers, Sequences, FiniteSets

VARIABLES
    meta,       \* agent::meta, key |-> value, both sequences of characters
    arg,        \* the configuration string of the last constructor or notify
    notified,   \* number of notify calls so far
    space,      \* rndenv::space
    draw,       \* the number popup(engine) returned in the last call, or -1
    opcode,     \* player::opcode
    play_type,  \* player::play_type
    before,     \* the board handed to the last call
    depth,      \* the search_depth handed to the last tree_search
    result,     \* the action the last call returned
    value,      \* the number the last call returned
    called      \* the member function called last

vars == <<meta, arg, notified, space, draw, opcode, play_type, before, depth,
          result, value, called>>

(***************************************************************************)
(* Bounds of the model.                                                    *)
(***************************************************************************)
\* largest tile level written into an input board by an edit
MaxTile == 2
\* largest search_depth passed to tree_search
MaxDepth == 1
\* number of leading entries of `space` the bounded shuffle permutes
ShuffleSpan == 3
\* longest configuration string handed to agent() or notify()
MaxLen == 3
\* number of notify calls on one agent
MaxNotify == 1

(***************************************************************************)
(* Board interface (board.h).                                              *)
(***************************************************************************)
\* the element of a one-element set: The({e(x) : x \in {v}}) is e(v) with v
\* computed once
The(S) == CHOOSE x \in S : TRUE

Positions == 0 .. 15

Directions == 0 .. 3

Cell(b, pos) == b[pos + 1]

FibTable == <<1, 2, 3, 5, 8, 13, 21, 34, 55, 89, 144, 233>>

map_to_fibonacci(level) == IF level = 0 THEN 0 ELSE FibTable[level]

\* rotate counter-clockwise: cell (r, c) of the result is cell (c, 3 - r)
RotateSource == [i \in 1 .. 16 |-> ((i - 1) % 4) * 4 + (3 - (i - 1) \div 4) + 1]

rotate_left(b) == [i \in 1 .. 16 |-> b[RotateSource[i]]]

CanMerge(a, c) == (a = 1 /\ c = 1) \/ a = c + 1 \/ c = a + 1

Larger(a, c) == IF a > c THEN a ELSE c

RECURSIVE Compact(_)
Compact(s) ==
    IF s = <<>> THEN <<>>
    ELSE IF Head(s) = 0 THEN Compact(Tail(s))
    ELSE <<Head(s)>> \o Compact(Tail(s))

\* merge a zero-free line towards its head; [row, score]
RECURSIVE MergeLine(_)
MergeLine(s) ==
    IF Len(s) < 2 THEN [row |-> s, score |-> 0]
    ELSE IF CanMerge(s[1], s[2])
         THEN The({[row |-> <<Larger(s[1], s[2]) + 1>> \o rest.row,
                    score |-> map_to_fibonacci(Larger(s[1], s[2]) + 1) + rest.score] :
                      rest \in {MergeLine(SubSeq(s, 3, Len(s)))}})
         ELSE The({[row |-> <<s[1]>> \o rest.row, score |-> rest.score] :
                      rest \in {MergeLine(Tail(s))}})

SlideLine(line) ==
    The({[row |-> SubSeq(m.row \o <<0, 0, 0, 0>>, 1, 4), score |-> m.score] :
            m \in {MergeLine(Compact(line))}})

\* the four lines of a slide, each listed from the side the tiles move to:
\* 0 up, 1 right, 2 down, 3 left
SlideLines ==
    [op \in Directions |->
       CASE op = 0 -> [k \in 1 .. 4 |-> [i \in 1 .. 4 |-> (i - 1) * 4 + k]]
         [] op = 1 -> [k \in 1 .. 4 |-> [i \in 1 .. 4 |-> (k - 1) * 4 + 5 - i]]
         [] op = 2 -> [k \in 1 .. 4 |-> [i \in 1 .. 4 |-> (4 - i) * 4 + k]]
         [] op = 3 -> [k \in 1 .. 4 |-> [i \in 1 .. 4 |-> (k - 1) * 4 + i]]]

\* the line-major slot of every cell, per direction
SlotOf ==
    [op \in Directions |-> [j \in 1 .. 16 |->
       CHOOSE n \in 1 .. 16 :
          SlideLines[op][((n - 1) \div 4) + 1][((n - 1) % 4) + 1] = j]]

\* the board whose lines in direction op are rs, and the reward of the slide
\* that turned b into it
Slid(b, op, rs) ==
    The({[board |-> nb,
          reward |-> IF nb = b THEN -1
                     ELSE rs[1].score + rs[2].score + rs[3].score + rs[4].score] :
            nb \in {[j \in 1 .. 16 |->
                       rs[((SlotOf[op][j] - 1) \div 4) + 1].row[((SlotOf[op][j] - 1) % 4) + 1]]}})

\* board::slide: [board, reward], reward -1 when the board does not change
SlideOnce(b, op) ==
    The({Slid(b, op, rs) :
            rs \in {[k \in 1 .. 4 |->
                       SlideLine([i \in 1 .. 4 |-> b[SlideLines[op][k][i]]])]}})

(***************************************************************************)
(* Input boards: a background with one cell overwritten.                   *)
(***************************************************************************)
EmptyBoard == [i \in 1 .. 16 |-> 0]

\* full, and no two neighbours merge
CheckerBoard ==
    [i \in 1 .. 16 |-> IF (((i - 1) \div 4) + ((i - 1) % 4)) % 2 = 0 THEN 1 ELSE 3]

\* the top row 4 3 2 1, the rest empty
LadderBoard == [i \in 1 .. 16 |-> IF i <= 4 THEN 5 - i ELSE 0]

\* cell (r, c) holds r + c + 1: every row and column is strictly monotonic
StairBoard == [i \in 1 .. 16 |-> ((i - 1) \div 4) + ((i - 1) % 4) + 1]

BoardsEditedAt(bgs, ps) ==
    {[bg EXCEPT ![pos + 1] = v] : bg \in bgs, pos \in ps, v \in 0 .. MaxTile}

PlayerBoards == BoardsEditedAt({EmptyBoard, CheckerBoard, LadderBoard}, {5})

EvalBoards ==
    BoardsEditedAt({EmptyBoard, CheckerBoard, LadderBoard, StairBoard}, {0, 3, 5, 10})

EnvBoards == BoardsEditedAt({EmptyBoard, CheckerBoard, LadderBoard}, {1})

InputBoards == PlayerBoards \cup EvalBoards \cup EnvBoards

\* the boards a search of n plies from the boards of S can meet
RECURSIVE BoardsWithin(_, _)
BoardsWithin(S, n) ==
    IF n = 0 THEN S
    ELSE The({BoardsWithin(T, n - 1) :
                 T \in {S \cup {SlideOnce(b, d).board : b \in S, d \in Directions}}})

KnownBoards == BoardsWithin(InputBoards, MaxDepth + 1)

\* board::slide, tabulated once for the boards the searches meet
SlideTable == [b \in KnownBoards |-> [d \in Directions |-> SlideOnce(b, d)]]

slide(b, op) == IF b \in KnownBoards THEN SlideTable[b][op] ELSE SlideOnce(b, op)

(***************************************************************************)
(* Action interface (action.h).                                            *)
(***************************************************************************)
NullAction == [type |-> "null", event |-> -1, tile |-> 0]

SlideAction(op) == [type |-> "slide", event |-> op, tile |-> 0]

PlaceAction(pos, tile) == [type |-> "place", event |-> pos, tile |-> tile]

(***************************************************************************)
(* player: evaluation of a board.                                          *)
(***************************************************************************)
\* player::tuples, set by the constructor
tuples == << <<0, 1, 2, 3>> >>

Max(a, c) == IF a >= c THEN a ELSE c

\* the loop of cal_decreasing_score from index i on
RECURSIVE DecreasingLoop(_, _, _, _, _, _)
DecreasingLoop(tuple, after, i, score, is_decreasing, is_increasing) ==
    IF i >= Len(tuple)
    THEN IF is_decreasing \/ is_increasing THEN score ELSE 0
    ELSE LET cur == Cell(after, tuple[i + 1])
             prev == Cell(after, tuple[i])
             sc == score + map_to_fibonacci(cur)
         IN IF cur = prev THEN 0
            ELSE IF cur > prev
                 THEN DecreasingLoop(tuple, after, i + 1, sc, FALSE, is_increasing)
                 ELSE DecreasingLoop(tuple, after, i + 1, sc, is_decreasing, FALSE)

\* cal_decreasing_score that also counts the first cell of the line
cal_decreasing_score_from_first(tuple, after) ==
    DecreasingLoop(tuple, after, 1, map_to_fibonacci(Cell(after, tuple[1])),
                   TRUE, TRUE)

cal_decreasing_score(tuple, after) ==
    DecreasingLoop(tuple, after, 1, 0, TRUE, TRUE)

RECURSIVE SpaceLoop(_, _, _)
SpaceLoop(after, i, space_counter) ==
    IF i >= 16 THEN space_counter
    ELSE SpaceLoop(after, i + 1,
                   space_counter + (IF Cell(after, i) = 0 THEN 1 ELSE 0))

\* cal_space_score that counts the occupied cells
cal_space_score_occupied(after) == (16 - SpaceLoop(after, 0, 0)) * 5

cal_space_score(after) == SpaceLoop(after, 0, 0) * 5

\* the rotation loop of evaluate_board for one tuple; [score, board]
RECURSIVE RotationLoop(_, _, _, _)
RotationLoop(tuple, after, i, score) ==
    IF i >= 4 THEN [score |-> score, board |-> after]
    ELSE The({RotationLoop(tuple, rotated, i + 1, sum) :
                 rotated \in {rotate_left(after)},
                 sum \in {score + cal_decreasing_score(tuple, after)}})

RECURSIVE TupleLoop(_, _, _)
TupleLoop(t, after, score) ==
    IF t > Len(tuples) THEN [score |-> score, board |-> after]
    ELSE The({TupleLoop(t + 1, r.board, r.score) :
                 r \in {RotationLoop(tuples[t], after, 0, score)}})

\* evaluate_board rotates its argument in place; the space score is taken
\* from the board the loops leave behind
evaluate_board(after) ==
    The({r.score + cal_space_score(r.board) : r \in {TupleLoop(1, after, 0)}})

\* evaluate_board, tabulated once for the boards the searches meet
EvaluateTable == [b \in KnownBoards |-> evaluate_board(b)]

Evaluate(game) ==
    IF game \in KnownBoards THEN EvaluateTable[game] ELSE evaluate_board(game)

(***************************************************************************)
(* player: search and the three selectors.  `order` is the content of the  *)
(* member opcode at the time of the call.                                  *)
(***************************************************************************)
RECURSIVE tree_search(_, _, _)
RECURSIVE SearchLoop(_, _, _, _, _)
SearchLoop(order, game, search_depth, k, best_score) ==
    IF k > Len(order) THEN best_score
    ELSE LET \* the body of the loop for the slide s of direction order[k]
             Body(s) ==
                 The({SearchLoop(order, game, search_depth, k + 1, best) :
                         best \in {The({Max(best_score, score + s.reward) :
                            score \in {IF s.reward # -1
                                       THEN s.reward
                                            + tree_search(order, s.board, search_depth - 1)
                                       ELSE 0}})}})
         IN The({Body(s) : s \in {slide(game, order[k])}})

tree_search(order, game, search_depth) ==
    IF search_depth <= 0 THEN Evaluate(game)
    ELSE SearchLoop(order, game, search_depth, 1, 0)

\* RandomLoop with the legality test inverted
RECURSIVE RandomLoopInverted(_, _, _)
RandomLoopInverted(order, b, k) ==
    IF k > Len(order) THEN NullAction
    ELSE IF slide(b, order[k]).reward = -1 THEN SlideAction(order[k])
    ELSE RandomLoopInverted(order, b, k + 1)

RECURSIVE RandomLoop(_, _, _)
RandomLoop(order, b, k) ==
    IF k > Len(order) THEN NullAction
    ELSE IF slide(b, order[k]).reward # -1 THEN SlideAction(order[k])
    ELSE RandomLoop(order, b, k + 1)

\* GreedyLoop that never raises max_reward
RECURSIVE GreedyLoopStaleMax(_, _, _, _, _)
GreedyLoopStaleMax(order, b, k, max_reward, best_op) ==
    IF k > Len(order) THEN best_op
    ELSE The({IF reward # -1 /\ max_reward <= reward
              THEN GreedyLoopStaleMax(order, b, k + 1, max_reward, order[k])
              ELSE GreedyLoopStaleMax(order, b, k + 1, max_reward, best_op) :
                 reward \in {slide(b, order[k]).reward}})

RECURSIVE GreedyLoop(_, _, _, _, _)
GreedyLoop(order, b, k, max_reward, best_op) ==
    IF k > Len(order) THEN best_op
    ELSE The({IF reward # -1 /\ max_reward <= reward
              THEN GreedyLoop(order, b, k + 1, reward, order[k])
              ELSE GreedyLoop(order, b, k + 1, max_reward, best_op) :
                 reward \in {slide(b, order[k]).reward}})

greedy_action(order, b) ==
    The({IF best_op # -1 THEN SlideAction(best_op) ELSE NullAction :
            best_op \in {GreedyLoop(order, b, 1, 0, -1)}})

\* HeuristicLoop with < in place of <=
RECURSIVE HeuristicLoopStrict(_, _, _, _, _)
HeuristicLoopStrict(order, b, k, max_score, best_op) ==
    IF k > Len(order) THEN best_op
    ELSE LET Body(s) ==
                 IF s.reward # -1
                 THEN The({IF max_score < s.reward + critic
                           THEN HeuristicLoopStrict(order, b, k + 1,
                                                    s.reward + critic, order[k])
                           ELSE HeuristicLoopStrict(order, b, k + 1, max_score, best_op) :
                              critic \in {tree_search(order, s.board, 1)}})
                 ELSE HeuristicLoopStrict(order, b, k + 1, max_score, best_op)
         IN The({Body(s) : s \in {slide(b, order[k])}})

RECURSIVE HeuristicLoop(_, _, _, _, _)
HeuristicLoop(order, b, k, max_score, best_op) ==
    IF k > Len(order) THEN best_op
    ELSE LET \* the body of the loop for the slide s of direction order[k]
             Body(s) ==
                 IF s.reward # -1
                 THEN The({IF max_score <= s.reward + critic
                           THEN HeuristicLoop(order, b, k + 1, s.reward + critic, order[k])
                           ELSE HeuristicLoop(order, b, k + 1, max_score, best_op) :
                              critic \in {tree_search(order, s.board, 1)}})
                 ELSE HeuristicLoop(order, b, k + 1, max_score, best_op)
         IN The({Body(s) : s \in {slide(b, order[k])}})

heuristic_action(order, b) ==
    The({IF best_op # -1 THEN SlideAction(best_op) ELSE NullAction :
            best_op \in {HeuristicLoop(order, b, 1, 0, -1)}})

random_action(order, b) == RandomLoop(order, b, 1)

Identity == <<0, 1, 2, 3>>

Arrangements(n) ==
    {q \in [1 .. n -> 1 .. n] : \A i, j \in 1 .. n : q[i] = q[j] => i = j}

\* the arrangements std::shuffle can leave in an array when the draws of the
\* engine move its first n entries only; every arrangement for n = Len(a)
ShuffledPrefix(a, n) ==
    {[i \in 1 .. Len(a) |-> IF i <= n THEN a[p[i]] ELSE a[i]] : p \in Arrangements(n)}

Shuffled(a) == ShuffledPrefix(a, Len(a))

PlayTypes == {"greedy", "heuristic", "random"}

(***************************************************************************)
(* The player: its selectors called in any order on any input board.       *)
(***************************************************************************)
IdleAgent ==
    /\ meta = <<>>
    /\ arg = <<>>
    /\ notified = 0

IdleEnv ==
    /\ space = [i \in 1 .. 16 |-> i - 1]
    /\ draw = -1

IdlePlayer ==
    /\ opcode = Identity
    /\ play_type = "random"

NoCall ==
    /\ before = EmptyBoard
    /\ depth = 0
    /\ result = NullAction
    /\ value = 0

InitPlayer ==
    /\ IdleAgent
    /\ IdleEnv
    /\ NoCall
    /\ opcode = Identity
    /\ play_type \in PlayTypes
    /\ called = "player"

PlayerIdle == UNCHANGED <<meta, arg, notified, space, draw, depth, value>>

RandomAction ==
    \E b \in PlayerBoards, order \in Shuffled(opcode) :
        /\ opcode' = order
        /\ before' = b
        /\ result' = random_action(order, b)
        /\ called' = "random_action"
        /\ UNCHANGED play_type
        /\ PlayerIdle

GreedyAction ==
    \E b \in PlayerBoards :
        /\ before' = b
        /\ result' = greedy_action(opcode, b)
        /\ called' = "greedy_action"
        /\ UNCHANGED <<opcode, play_type>>
        /\ PlayerIdle

HeuristicAction ==
    \E b \in PlayerBoards :
        /\ before' = b
        /\ result' = heuristic_action(opcode, b)
        /\ called' = "heuristic_action"
        /\ UNCHANGED <<opcode, play_type>>
        /\ PlayerIdle

\* player::take_action: the selector named by play_type, random otherwise
TakeAction ==
    \E b \in PlayerBoards :
        \E order \in IF play_type \in {"greedy", "heuristic"}
                     THEN {opcode} ELSE Shuffled(opcode) :
            /\ opcode' = order
            /\ before' = b
            /\ result' = IF play_type = "greedy" THEN greedy_action(opcode, b)
                         ELSE IF play_type = "heuristic"
                              THEN heuristic_action(opcode, b)
                              ELSE random_action(order, b)
            /\ called' = "take_action"
            /\ UNCHANGED play_type
            /\ PlayerIdle

NextPlayer == TakeAction \/ RandomAction \/ GreedyAction \/ HeuristicAction

SpecPlayer == InitPlayer /\ [][NextPlayer]_vars

(***************************************************************************)
(* The search and the evaluation as functions of their arguments.          *)
(***************************************************************************)
InitEval ==
    /\ IdleAgent
    /\ IdleEnv
    /\ IdlePlayer
    /\ NoCall
    /\ called = "player"

EvalIdle ==
    UNCHANGED <<meta, arg, notified, space, draw, opcode, play_type, result>>

TreeSearch ==
    \E b \in EvalBoards, d \in 0 .. MaxDepth :
        /\ before' = b
        /\ depth' = d
        /\ value' = tree_search(opcode, b, d)
        /\ called' = "tree_search"
        /\ EvalIdle

EvaluateBoard ==
    \E b \in EvalBoards :
        /\ before' = b
        /\ depth' = 0
        /\ value' = evaluate_board(b)
        /\ called' = "evaluate_board"
        /\ EvalIdle

CalDecreasingScore ==
    \E b \in EvalBoards, t \in 1 .. Len(tuples) :
        /\ before' = b
        /\ depth' = 0
        /\ value' = cal_decreasing_score(tuples[t], b)
        /\ called' = "cal_decreasing_score"
        /\ EvalIdle

CalSpaceScore ==
    \E b \in EvalBoards :
        /\ before' = b
        /\ depth' = 0
        /\ value' = cal_space_score(b)
        /\ called' = "cal_space_score"
        /\ EvalIdle

NextEval == TreeSearch \/ EvaluateBoard \/ CalDecreasingScore \/ CalSpaceScore

SpecEval == InitEval /\ [][NextEval]_vars

(***************************************************************************)
(* The environment: rndenv::take_action called on any input board.         *)
(***************************************************************************)
PopupMin == 0

PopupMax == 9

\* the first nine outcomes give 1, the last gives 2
TileForLastHigh(d) == IF d < PopupMax THEN 1 ELSE 2

\* popup(engine) ? 1 : 2
TileFor(d) == IF d # 0 THEN 1 ELSE 2

\* the loop of take_action with the test of the cell inverted
RECURSIVE PlaceLoopOccupied(_, _, _, _)
PlaceLoopOccupied(order, after, k, d) ==
    IF k > Len(order) THEN [action |-> NullAction, draw |-> -1]
    ELSE IF Cell(after, order[k]) = 0 THEN PlaceLoopOccupied(order, after, k + 1, d)
    ELSE [action |-> PlaceAction(order[k], TileFor(d)), draw |-> d]

\* the loop of take_action over the shuffled space; d is what popup(engine)
\* returns if it is called
RECURSIVE PlaceLoop(_, _, _, _)
PlaceLoop(order, after, k, d) ==
    IF k > Len(order) THEN [action |-> NullAction, draw |-> -1]
    ELSE IF Cell(after, order[k]) # 0 THEN PlaceLoop(order, after, k + 1, d)
    ELSE [action |-> PlaceAction(order[k], TileFor(d)), draw |-> d]

InitEnv ==
    /\ IdleAgent
    /\ IdleEnv
    /\ IdlePlayer
    /\ NoCall
    /\ called = "rndenv"

EnvTakeAction ==
    \E after \in EnvBoards, order \in ShuffledPrefix(space, ShuffleSpan),
       d \in PopupMin .. PopupMax :
        LET r == PlaceLoop(order, after, 1, d)
        IN /\ space' = order
           /\ before' = after
           /\ result' = r.action
           /\ draw' = r.draw
           /\ called' = "rndenv::take_action"
           /\ UNCHANGED <<meta, arg, notified, opcode, play_type, depth, value>>

NextEnv == EnvTakeAction

SpecEnv == InitEnv /\ [][NextEnv]_vars

(***************************************************************************)
(* The configuration store of agent.  A string is a sequence of            *)
(* characters.  size_t is modelled 31 bits wide, the widest unsigned type  *)
(* whose values are all representable here.                                *)
(***************************************************************************)
NPos == 2147483647

\* unsigned addition of size_t
AddSize(a, c) == IF a > NPos - c THEN a - (NPos - c) - 1 ELSE a + c

\* std::string::find(ch)
Find(str, ch) ==
    IF \E i \in 1 .. Len(str) : str[i] = ch
    THEN (CHOOSE i \in 1 .. Len(str) :
             str[i] = ch /\ \A j \in 1 .. i - 1 : str[j] # ch) - 1
    ELSE NPos

\* std::string::substr(pos, n), for pos <= size
Substr(str, pos, n) ==
    LET count == IF n > Len(str) - pos THEN Len(str) - pos ELSE n
    IN SubSeq(str, pos + 1, pos + count)

\* what operator>> extracts one after the other
RECURSIVE Tokens(_)
Tokens(str) ==
    IF str = <<>> THEN <<>>
    ELSE IF Head(str) = " " THEN Tokens(Tail(str))
    ELSE LET stop == Find(str, " ")
             end == IF stop = NPos THEN Len(str) ELSE stop
         IN <<SubSeq(str, 1, end)>> \o Tokens(SubSeq(str, end + 1, Len(str)))

PairKey(pair) == Substr(pair, 0, Find(pair, "="))

\* a value that is empty when the pair has no '='
PairValueEmptyWithoutEq(pair) ==
    IF Find(pair, "=") = NPos THEN <<>>
    ELSE Substr(pair, Find(pair, "=") + 1, NPos)

PairValue(pair) == Substr(pair, AddSize(Find(pair, "="), 1), NPos)

\* meta[key] = { value }
Put(m, k, v) == [x \in DOMAIN m \cup {k} |-> IF x = k THEN v ELSE m[x]]

RECURSIVE ParsePairs(_, _)
ParsePairs(m, pairs) ==
    IF pairs = <<>> THEN m
    ELSE ParsePairs(Put(m, PairKey(Head(pairs)), PairValue(Head(pairs))),
                    Tail(pairs))

DefaultArgs ==
    <<"n", "a", "m", "e", "=", "u", "n", "k", "n", "o", "w", "n", " ",
      "r", "o", "l", "e", "=", "u", "n", "k", "n", "o", "w", "n", " ">>

\* agent::agent
Construct(args) == ParsePairs(<<>>, Tokens(DefaultArgs \o args))

Chars == {"a", "=", " "}

Strings == UNION {[1 .. n -> Chars] : n \in 0 .. MaxLen}

InitAgent ==
    /\ \E args \in Strings :
          /\ meta = Construct(args)
          /\ arg = args
    /\ notified = 0
    /\ IdleEnv
    /\ IdlePlayer
    /\ NoCall
    /\ called = "agent"

Notify ==
    /\ notified < MaxNotify
    /\ \E msg \in Strings :
          /\ meta' = Put(meta, PairKey(msg), PairValue(msg))
          /\ arg' = msg
    /\ notified' = notified + 1
    /\ called' = "notify"
    /\ UNCHANGED <<space, draw, opcode, play_type, before, depth, result, value>>

NextAgent == Notify

SpecAgent == InitAgent /\ [][NextAgent]_vars

(***************************************************************************)
(* Properties of the selectors.                                            *)
(***************************************************************************)
LegalDirections(b) == {d \in Directions : SlideOnce(b, d).reward # -1}

RanRandom ==
    called = "random_action" \/ (called = "take_action" /\ play_type = "random")

RanGreedy ==
    called = "greedy_action" \/ (called = "take_action" /\ play_type = "greedy")

RanHeuristic ==
    called = "heuristic_action" \/ (called = "take_action" /\ play_type = "heuristic")

Reward(b, d) == SlideOnce(b, d).reward

\* what heuristic_action compares: immediate reward plus one-ply search
Score(b, d) == Reward(b, d) + tree_search(Identity, SlideOnce(b, d).board, 1)

PlaceIn(order, d) == CHOOSE k \in 1 .. 4 : order[k] = d

\* C1: every selector returns the null action exactly when no direction is
\* legal on the given board, and otherwise a slide in a legal direction.
C1_LegalOrNull ==
    (RanRandom \/ RanGreedy \/ RanHeuristic) =>
        IF LegalDirections(before) = {}
        THEN result = NullAction
        ELSE /\ result.type = "slide"
             /\ result.event \in LegalDirections(before)

C1_Witness ==
    /\ RanHeuristic
    /\ LegalDirections(before) \notin {{}, Directions}
    /\ result.type = "slide"
    /\ opcode # Identity

\* C2: on a board with a legal direction, the direction greedy_action
\* returns earns the largest immediate reward of all legal directions.
C2_GreedyMaxReward ==
    (RanGreedy /\ LegalDirections(before) # {}) =>
        /\ result.type = "slide"
        /\ result.event \in LegalDirections(before)
        /\ \A d \in LegalDirections(before) :
              Reward(before, d) <= Reward(before, result.event)

C2_Witness ==
    /\ RanGreedy
    /\ result.type = "slide"
    /\ \E d \in LegalDirections(before) :
          Reward(before, d) < Reward(before, result.event)
    /\ opcode[4] # result.event

\* C4: on a board with a legal direction, heuristic_action returns a legal
\* direction of largest reward + tree_search(board after the slide, 1), and
\* of those the one the iteration over opcode visits last.
C4_HeuristicMaxScore ==
    (RanHeuristic /\ LegalDirections(before) # {}) =>
        /\ result.type = "slide"
        /\ result.event \in LegalDirections(before)
        /\ \A d \in LegalDirections(before) :
              /\ Score(before, d) <= Score(before, result.event)
              /\ Score(before, d) = Score(before, result.event) =>
                    PlaceIn(opcode, d) <= PlaceIn(opcode, result.event)

C4_Witness ==
    /\ RanHeuristic
    /\ result.type = "slide"
    /\ \E d \in LegalDirections(before) :
          /\ d # result.event
          /\ Score(before, d) = Score(before, result.event)
    /\ \E d \in LegalDirections(before) :
          Score(before, d) < Score(before, result.event)

\* C9: greedy_action and heuristic_action visit the directions in the order
\* 0, 1, 2, 3 whatever was called before, so of the directions tied for the
\* best value they return the one with the largest opcode.
C9_FixedOrderTieBreak ==
    /\ (RanGreedy /\ result.type = "slide") =>
          \A d \in LegalDirections(before) :
             Reward(before, d) = Reward(before, result.event) => d <= result.event
    /\ (RanHeuristic /\ result.type = "slide") =>
          \A d \in LegalDirections(before) :
             Score(before, d) = Score(before, result.event) => d <= result.event

(***************************************************************************)
(* Properties of the search and of the evaluation.                         *)
(***************************************************************************)
MaxOf(S) == CHOOSE m \in S : \A n \in S : n <= m

\* the score the description gives one direction of a search
BranchScore(b, d, search_depth) ==
    IF SlideOnce(b, d).reward # -1
    THEN SlideOnce(b, d).reward
            + tree_search(Identity, SlideOnce(b, d).board, search_depth - 1)
    ELSE 0

\* C3: tree_search returns evaluate_board of the board at depth <= 0, and
\* otherwise the largest per-direction score, which is reward + search of
\* the board after the slide for a legal direction and 0 for an illegal one.
C3_SearchCountsRewardOnce ==
    called = "tree_search" =>
        value = IF depth <= 0 THEN evaluate_board(before)
                ELSE MaxOf({BranchScore(before, d, depth) : d \in Directions})

\* what tree_search returns: a legal branch counts its reward twice
C3_SearchCountsRewardTwice ==
    called = "tree_search" =>
        value = IF depth <= 0 THEN evaluate_board(before)
                ELSE MaxOf({0} \cup
                       {BranchScore(before, d, depth) + SlideOnce(before, d).reward :
                           d \in LegalDirections(before)})

RECURSIVE Rotated(_, _)
Rotated(b, k) == IF k = 0 THEN b ELSE Rotated(rotate_left(b), k - 1)

StrictlyIncreasing(b) == b[1] < b[2] /\ b[2] < b[3] /\ b[3] < b[4]

StrictlyDecreasing(b) == b[1] > b[2] /\ b[2] > b[3] /\ b[3] > b[4]

\* the run score of cells 0, 1, 2, 3 of a board
RunScore(b) ==
    IF StrictlyIncreasing(b) \/ StrictlyDecreasing(b)
    THEN map_to_fibonacci(b[2]) + map_to_fibonacci(b[3]) + map_to_fibonacci(b[4])
    ELSE 0

EmptyCells(b) == {pos \in Positions : Cell(b, pos) = 0}

\* C5: evaluate_board returns the run scores of cells 0..3 of the four
\* rotations of the board plus 5 for each empty cell, and never a negative
\* number.
C5_EvaluateClosedForm ==
    called = "evaluate_board" =>
        /\ value = RunScore(before) + RunScore(Rotated(before, 1))
                   + RunScore(Rotated(before, 2)) + RunScore(Rotated(before, 3))
                   + 5 * Cardinality(EmptyCells(before))
        /\ value >= 0

C5_Witness ==
    /\ called = "evaluate_board"
    /\ RunScore(before) = 0
    /\ \E k \in 1 .. 3 : RunScore(Rotated(before, k)) > 0
    /\ EmptyCells(before) # {}

Cleared(b, pos) == [b EXCEPT ![pos + 1] = 0]

\* the cells no rotation brings into cells 0..3
InteriorPositions == {5, 6, 9, 10}

\* C6 as stated: emptying any occupied cell raises evaluate_board by 5.
C6_EmptyingAnyCellAddsFive ==
    called = "evaluate_board" =>
        \A pos \in Positions \ EmptyCells(before) :
            evaluate_board(Cleared(before, pos)) = value + 5

\* C6 amended: emptying an occupied cell that is not on the border of the
\* board raises evaluate_board by exactly 5.
C6_EmptyingInteriorCellAddsFive ==
    called = "evaluate_board" =>
        \A pos \in InteriorPositions \ EmptyCells(before) :
            evaluate_board(Cleared(before, pos)) = value + 5

C6_Witness ==
    /\ called = "evaluate_board"
    /\ InteriorPositions \ EmptyCells(before) # {}
    /\ value > 5 * Cardinality(EmptyCells(before))

(***************************************************************************)
(* Properties of the environment.                                          *)
(***************************************************************************)
\* C7: after any number of calls, rndenv::take_action returns the null
\* action exactly when the board has no empty cell, and otherwise a
\* placement of tile 1 or 2 on a cell that is empty on the given board.
C7_PlaceOnEmptyOrNull ==
    called = "rndenv::take_action" =>
        IF EmptyCells(before) = {}
        THEN result = NullAction
        ELSE /\ result.type = "place"
             /\ result.event \in EmptyCells(before)
             /\ result.tile \in {1, 2}

C7_Witness ==
    /\ called = "rndenv::take_action"
    /\ result.type = "place"
    /\ Cell(before, space[1]) # 0
    /\ space[1] # 0

\* C8 as stated: outcomes 0 to 8 of the draw place tile 1, outcome 9 tile 2.
C8_LastOutcomeIsHigh ==
    (called = "rndenv::take_action" /\ result.type = "place") =>
        /\ draw \in 0 .. 8 => result.tile = 1
        /\ draw = 9 => result.tile = 2

\* C8 amended: the tile is decided by one draw from 0..9; outcome 0 places
\* tile 2 and outcomes 1 to 9 place tile 1.
C8_ZeroOutcomeIsHigh ==
    (called = "rndenv::take_action" /\ result.type = "place") =>
        /\ draw \in PopupMin .. PopupMax
        /\ draw = 0 => result.tile = 2
        /\ draw \in 1 .. 9 => result.tile = 1

C8_Witness ==
    /\ called = "rndenv::take_action"
    /\ draw = 0
    /\ result.type = "place"
    /\ result.tile = 2

(***************************************************************************)
(* Properties of the configuration store.                                  *)
(***************************************************************************)
HasNoEq(str) == \A i \in 1 .. Len(str) : str[i] # "="

\* the '='-free tokens of the last configuration string whose key no later
\* token of that string sets again
BareTokens ==
    IF called = "notify"
    THEN IF HasNoEq(arg) THEN {arg} ELSE {}
    ELSE LET ts == Tokens(arg)
         IN {ts[i] : i \in {j \in 1 .. Len(ts) :
                /\ HasNoEq(ts[j])
                /\ \A l \in j + 1 .. Len(ts) : PairKey(ts[l]) # ts[j]}}

\* C10 as stated: a token without '=' is stored as a key with the empty
\* string as its value.
C10_BareTokenStoresEmpty ==
    called \in {"agent", "notify"} =>
        \A t \in BareTokens : t \in DOMAIN meta /\ meta[t] = <<>>

\* C10 amended: a token without '=' is stored as a key whose value is the
\* token itself.
C10_BareTokenStoresItself ==
    called \in {"agent", "notify"} =>
        \A t \in BareTokens : t \in DOMAIN meta /\ meta[t] = t

C10_Witness ==
    /\ called = "notify"
    /\ HasNoEq(arg)
    /\ Len(arg) = MaxLen
    /\ \E t \in DOMAIN meta : t # arg /\ HasNoEq(t) /\ meta[t] = t

====
